---- MODULE Spec2Model ----
(***************************************************************************)
(* TRSearch: the AI analysis pipeline (trendradar/ai/analyzer.py) and the  *)
(* research component (trendradar/researcher.py, config/researcher.py).    *)
(*                                                                         *)
(* Text is modelled as a sequence of characters.  A character is a string; *)
(* "bao", "xian", "an", "quan" stand for the single CJK characters of the  *)
(* hot-list keyword list, "A"/"I" and "a"/"i" are the two cases of the     *)
(* same letters and "x" is any other character.                            *)
(***************************************************************************)
EXTENDS Naturals, Integers, Sequences, FiniteSets, TLC

VARIABLES
  self,         \* the AIAnalyzer object: configuration read in __init__
  pc,           \* position of the running call
  stats,        \* analyze argument: hot-list groups
  rss_stats,    \* analyze argument: RSS groups
  lines,        \* _prepare_news_content: lines
  count,        \* _prepare_news_content: count
  pos,          \* _prepare_news_content: position of the two nested loops
  walk,         \* one record per loop iteration that reached a title
  netlog,       \* HTTP requests issued so far, in order
  response,     \* raw text returned by _call_ai_api
  result,       \* value returned by the call
  raised,       \* exception that left the call ("none" if none)
  op,           \* operation that was called
  arg,          \* argument of a Researcher or parser operation
  ret           \* value returned by a Researcher operation

vars == <<self, pc, stats, rss_stats, lines, count, pos, walk, netlog,
          response, result, raised, op, arg, ret>>

----------------------------------------------------------------------------
(* Bounds *)

MaxNewsBound == 2     \* MAX_NEWS_FOR_ANALYSIS ranges over 0..MaxNewsBound
MaxGroups == 2        \* groups of one analyze call, both sources together
MaxTitles == 2        \* titles per group
MaxItems == 2         \* titles of one analyze call, both sources together
MaxQueryLen == 2      \* characters of a query given to the Researcher
MaxTriggers == 2      \* configured trigger keywords
MaxResults == 2       \* results the search answers with
MaxPageLen == 3       \* tokens of a fetched page
MaxRespLen == 4       \* runs of a raw LLM response given to the parser

----------------------------------------------------------------------------
(* Python str operations *)

\* str.lower() on one character
Lower(c) == CASE c = "A" -> "a" [] c = "I" -> "i" [] OTHER -> c

\* str.lower()
LowerStr(s) == [i \in 1..Len(s) |-> Lower(s[i])]

\* k in q
Contains(k, q) ==
  \E i \in 0..(Len(q) - Len(k)) : SubSeq(q, i + 1, i + Len(k)) = k

\* s[:n]
Take(s, n) == SubSeq(s, 1, IF Len(s) < n THEN Len(s) ELSE n)

\* the sequences over S of length at most n
SeqsUpTo(S, n) == UNION {[1..k -> S] : k \in 0..n}

RECURSIVE SumSeq(_)
SumSeq(s) == IF s = <<>> THEN 0 ELSE Head(s) + SumSeq(Tail(s))

RECURSIVE Flatten(_)
Flatten(ss) == IF ss = <<>> THEN <<>> ELSE Head(ss) \o Flatten(Tail(ss))

----------------------------------------------------------------------------
(* Researcher (trendradar/researcher.py) *)

\* attributes and methods of the class Researcher that analyzer.py imports
ResearcherAttrs ==
  {"enabled", "api_key", "triggers", "max_results", "search_depth", "timeout",
   "_should_trigger", "search_news", "read_article", "_strip_html",
   "fetch_deep_content"}

\* Researcher._should_trigger
_should_trigger(r, query) ==
  IF ~r.enabled \/ r.api_key = "" THEN FALSE
  ELSE IF r.triggers = <<>> THEN TRUE
  ELSE \E i \in 1..Len(r.triggers) : Contains(r.triggers[i], query)

\* exceptions that are instances of requests.RequestException
RequestExceptions ==
  {"ReadTimeout", "ConnectTimeout", "ConnectionError", "HTTPError", "JSONDecodeError"}

\* the requests the Researcher issues
SearchRequest == [kind |-> "search", url |-> "tavily_search"]
ExtractRequest == [kind |-> "extract", url |-> "tavily_extract"]
GetRequest(url) == [kind |-> "get", url |-> url]

\* Researcher.search_news; env is what the search request meets: an exception
\* of requests.post, raise_for_status, response.json or data.get, or the
\* "results" of the decoded body
search_news(r, query, env) ==
  IF ~_should_trigger(r, query)
    THEN [exc |-> "none", value |-> <<>>, reqs |-> <<>>]
  ELSE IF env.exc # "none"
    THEN [exc |-> env.exc, value |-> <<>>, reqs |-> <<SearchRequest>>]
  ELSE [exc |-> "none", value |-> env.results, reqs |-> <<SearchRequest>>]

\* a page is a sequence of "<t>" (a tag), "w" (a letter) and " " (whitespace)
RECURSIVE DataRuns(_, _)
\* the texts HTMLParser hands to handle_data: the runs between the tags
DataRuns(html, cur) ==
  IF html = <<>> THEN (IF cur = <<>> THEN <<>> ELSE <<cur>>)
  ELSE IF Head(html) = "<t>"
    THEN (IF cur = <<>> THEN <<>> ELSE <<cur>>) \o DataRuns(Tail(html), <<>>)
  ELSE DataRuns(Tail(html), Append(cur, Head(html)))

RECURSIVE StripSpaces(_)
\* str.strip() on page text
StripSpaces(s) ==
  IF s # <<>> /\ Head(s) = " " THEN StripSpaces(Tail(s))
  ELSE IF s # <<>> /\ s[Len(s)] = " " THEN StripSpaces(SubSeq(s, 1, Len(s) - 1))
  ELSE s

RECURSIVE JoinWith(_, _)
\* sep.join(parts)
JoinWith(parts, sep) ==
  IF parts = <<>> THEN <<>>
  ELSE IF Len(parts) = 1 THEN parts[1]
  ELSE parts[1] \o sep \o JoinWith(Tail(parts), sep)

RECURSIVE CollapseSpaces(_)
\* re.sub(r"\s+", " ", text)
CollapseSpaces(s) ==
  IF Len(s) < 2 THEN s
  ELSE IF s[1] = " " /\ s[2] = " " THEN CollapseSpaces(Tail(s))
  ELSE <<s[1]>> \o CollapseSpaces(Tail(s))

\* parts of _Extractor after feed(html)
ExtractorParts(html) ==
  LET runs == DataRuns(html, <<>>)
      cleaned == [i \in 1..Len(runs) |-> StripSpaces(runs[i])]
  IN SelectSeq(cleaned, LAMBDA x : x # <<>>)

\* Researcher._strip_html
_strip_html(html) ==
  StripSpaces(CollapseSpaces(JoinWith(ExtractorParts(html), <<" ">>)))

\* Researcher.read_article; ex is what the extract request meets (an
\* exception, or the "content" and "raw_content" of the body), gt what the
\* page request meets (an exception, or the page text)
read_article(r, url, ex, gt) ==
  LET content == IF ex.content # <<>> THEN ex.content ELSE ex.raw_content
      first == IF r.api_key # "" THEN <<ExtractRequest>> ELSE <<>>
  IN IF url = "" THEN [exc |-> "none", value |-> <<>>, reqs |-> <<>>]
     ELSE IF r.api_key # "" /\ ex.exc = "none" /\ content # <<>>
       THEN [exc |-> "none", value |-> content, reqs |-> first]
     ELSE IF r.api_key # "" /\ ex.exc \notin (RequestExceptions \cup {"none"})
       THEN [exc |-> ex.exc, value |-> <<>>, reqs |-> first]
     ELSE IF gt.exc = "none"
       THEN [exc |-> "none", value |-> _strip_html(gt.text),
             reqs |-> Append(first, GetRequest(url))]
     ELSE IF gt.exc \in RequestExceptions
       THEN [exc |-> "none", value |-> <<>>, reqs |-> Append(first, GetRequest(url))]
     ELSE [exc |-> gt.exc, value |-> <<>>, reqs |-> Append(first, GetRequest(url))]

\* context[:2000]
ContextLimit == 2000

\* the header the returned text starts with
DeepHeader == <<"hdr">>

RECURSIVE CollectContents(_, _, _)
\* the for loop of Researcher.fetch_deep_content over results; envs[i] is
\* what the two requests of read_article meet for results[i]
CollectContents(r, results, envs) ==
  IF results = <<>> THEN [exc |-> "none", contents |-> <<>>, reqs |-> <<>>]
  ELSE LET res == Head(results)
           first == IF res.raw_content # <<>> THEN res.raw_content ELSE res.content
           art == IF res.url # ""
                    THEN read_article(r, res.url, Head(envs).ex, Head(envs).gt)
                  ELSE [exc |-> "none", value |-> <<>>, reqs |-> <<>>]
           content == IF art.value # <<>> THEN art.value ELSE first
           rest == CollectContents(r, Tail(results), Tail(envs))
       IN IF art.exc # "none"
            THEN [exc |-> art.exc, contents |-> <<>>, reqs |-> art.reqs]
          ELSE [exc |-> rest.exc,
                contents |-> (IF content # <<>> THEN <<content>> ELSE <<>>)
                              \o rest.contents,
                reqs |-> art.reqs \o rest.reqs]

\* the query fetch_deep_content searches for: the title and a fixed suffix
DeepQuery(title) == title \o <<" ", "sfx">>

\* Researcher.fetch_deep_content.  The try body reads the local url before
\* it is assigned, which raises; the bare except that follows catches it and
\* runs the search.  Exceptions raised inside that handler are not caught by
\* the except clause written after it.
fetch_deep_content(r, title, env, envs) ==
  IF ~_should_trigger(r, title)
    THEN [exc |-> "none", value |-> <<>>, reqs |-> <<>>]
  ELSE LET s == search_news(r, DeepQuery(title), env)
           col == CollectContents(r, s.value, envs)
           context == JoinWith(col.contents, <<"\n">>)
       IN IF s.exc # "none" THEN s
          ELSE IF col.exc # "none"
            THEN [exc |-> col.exc, value |-> <<>>, reqs |-> s.reqs \o col.reqs]
          ELSE [exc |-> "none",
                value |-> IF context = <<>> THEN <<>>
                          ELSE DeepHeader \o Take(context, ContextLimit),
                reqs |-> s.reqs \o col.reqs]

----------------------------------------------------------------------------
(* Researcher (config/researcher.py) *)

\* the condition under which config.Researcher.fetch_deep_content goes on
\* to the search request
config_triggered(r, title) ==
  ~(~r.enabled \/ ~(\E i \in 1..Len(r.triggers) : Contains(r.triggers[i], title)))

\* config.Researcher.fetch_deep_content; every exception of the request and
\* of the decoding is caught by the bare except
config_fetch_deep_content(r, title, env) ==
  IF ~config_triggered(r, title)
    THEN [exc |-> "none", value |-> <<>>, reqs |-> <<>>]
  ELSE IF env.exc # "none"
    THEN [exc |-> "none", value |-> <<>>, reqs |-> <<SearchRequest>>]
  ELSE [exc |-> "none",
        value |-> DeepHeader \o
                  Take(JoinWith([i \in 1..Len(env.results) |-> env.results[i].content],
                                <<"\n">>), ContextLimit),
        reqs |-> <<SearchRequest>>]

----------------------------------------------------------------------------
(* Raw LLM text.  A response is a sequence of runs [c, n]: n characters of  *)
(* kind c.  "fence" is the three backquotes, "json" the word json, "ws" a   *)
(* whitespace character, "objS" the JSON text {"summary":"x"}, "objE" the   *)
(* JSON text {}, "arr" the JSON text [], "x" any other characters.          *)

WS == [c |-> "ws", n |-> 1]
FENCE == [c |-> "fence", n |-> 3]
JSONTAG == [c |-> "json", n |-> 4]
OBJS == [c |-> "objS", n |-> 15]
OBJE == [c |-> "objE", n |-> 2]
ARR == [c |-> "arr", n |-> 2]
X1 == [c |-> "x", n |-> 1]
XBIG == [c |-> "x", n |-> 600]

\* len(s)
CharLen(s) == SumSeq([i \in 1..Len(s) |-> s[i].n])

RECURSIVE TakeChars(_, _)
\* s[:k]
TakeChars(s, k) ==
  IF s = <<>> \/ k = 0 THEN <<>>
  ELSE IF Head(s).n <= k THEN <<Head(s)>> \o TakeChars(Tail(s), k - Head(s).n)
  ELSE <<[c |-> Head(s).c, n |-> k]>>

RECURSIVE LStrip(_)
LStrip(s) == IF s # <<>> /\ Head(s).c = "ws" THEN LStrip(Tail(s)) ELSE s

RECURSIVE RStrip(_)
RStrip(s) ==
  IF s # <<>> /\ s[Len(s)].c = "ws" THEN RStrip(SubSeq(s, 1, Len(s) - 1)) ELSE s

\* str.strip()
Strip(s) == RStrip(LStrip(s))

\* positions where the three backquotes start
FenceAt(s) == {i \in 1..Len(s) : s[i] = FENCE}

\* positions where the three backquotes followed by json start
JsonFenceAt(s) == {i \in FenceAt(s) : i < Len(s) /\ s[i + 1] = JSONTAG}

Min(S) == CHOOSE m \in S : \A k \in S : m <= k

\* s.split("```", 1)[0]
BeforeFence(s) == IF FenceAt(s) = {} THEN s ELSE SubSeq(s, 1, Min(FenceAt(s)) - 1)

\* s.split("```", 1)[1], for s containing the three backquotes
AfterFence(s) == SubSeq(s, Min(FenceAt(s)) + 1, Len(s))

\* s.split("```json", 1)[1], for s containing it
AfterJsonFence(s) == SubSeq(s, Min(JsonFenceAt(s)) + 2, Len(s))

\* the seven content fields
ContentFields ==
  {"summary", "keyword_analysis", "sentiment", "cross_platform", "impact",
   "signals", "conclusion"}

\* json.loads(text): an object as a function from its keys, or an exception
json_loads(text) ==
  IF Len(text) = 1 /\ text[1] = OBJS
    THEN [exc |-> "none", isdict |-> TRUE, keys |-> {"summary"}]
  ELSE IF Len(text) = 1 /\ text[1] = OBJE
    THEN [exc |-> "none", isdict |-> TRUE, keys |-> {}]
  ELSE IF Len(text) = 1 /\ text[1] = ARR
    THEN [exc |-> "none", isdict |-> FALSE, keys |-> {}]
  ELSE [exc |-> "JSONDecodeError", isdict |-> FALSE, keys |-> {}]

\* data.get(field, "") on the objects above: every present value is "x"
DataGet(data, field) == IF field \in data.keys THEN <<X1>> ELSE <<>>

\* AIAnalysisResult()
AIAnalysisResult ==
  [summary |-> <<>>, keyword_analysis |-> <<>>, sentiment |-> <<>>,
   cross_platform |-> <<>>, impact |-> <<>>, signals |-> <<>>,
   conclusion |-> <<>>, raw_response |-> <<>>, success |-> FALSE, error |-> "",
   total_news |-> 0, analyzed_news |-> 0, max_news_limit |-> 0,
   hotlist_count |-> 0, rss_count |-> 0]

\* response[:1000]
SummaryLimit == 1000

\* the text json.loads is given
json_str(resp) ==
  IF JsonFenceAt(resp) # {} THEN BeforeFence(AfterJsonFence(resp))
  ELSE IF FenceAt(resp) # {} THEN BeforeFence(AfterFence(resp))
  ELSE resp

\* ParseFallback that leaves success unset
ParseFallback_Failure(base, resp) ==
  [base EXCEPT !.error = "parse_error", !.summary = TakeChars(resp, SummaryLimit)]

\* the except branch of _parse_response
ParseFallback(base, resp) ==
  [base EXCEPT !.error = "parse_error", !.summary = TakeChars(resp, SummaryLimit),
               !.success = TRUE]

\* AIAnalyzer._parse_response
_parse_response(resp) ==
  LET base == [AIAnalysisResult EXCEPT !.raw_response = resp]
      data == json_loads(Strip(json_str(resp)))
  IN IF resp = <<>> \/ Strip(resp) = <<>>
       THEN [base EXCEPT !.error = "empty_response"]
     ELSE IF data.exc # "none" \/ ~data.isdict
       THEN ParseFallback(base, resp)
     ELSE [f \in DOMAIN base |->
             IF f \in ContentFields THEN DataGet(data, f)
             ELSE IF f = "success" THEN TRUE ELSE base[f]]

----------------------------------------------------------------------------
(* Inputs of analyze *)

\* titles of news items: empty, without keyword, with a keyword in lower case
Titles == {<<>>, <<"x">>, <<"a", "i">>}

\* the items t of a group (t.get("title", ""))
ItemLists == SeqsUpTo([title : Titles], MaxTitles)

\* rss_stats: groups with "titles"
RssGroups == [titles : ItemLists]

\* stats: groups with "word" and "titles"
HotGroups == [word : {"", "w"}, titles : ItemLists]

\* sum(len(s.get("titles", [])) for s in groups) if groups else 0
TotalTitles(groups) == SumSeq([i \in 1..Len(groups) |-> Len(groups[i].titles)])

\* the lists of at most n groups of G that hold at most k titles in all
RECURSIVE GroupsWithin(_, _, _)
GroupsWithin(G, n, k) ==
  {<<>>} \cup
  (IF n = 0 THEN {}
   ELSE UNION {{<<g>> \o rest : rest \in GroupsWithin(G, n - 1, k - Len(g.titles))} :
               g \in {x \in G : Len(x.titles) <= k}})

\* the argument pairs of analyze within the bounds
CallInputs ==
  UNION {{[stats |-> st, rss_stats |-> rs] :
            st \in GroupsWithin(HotGroups, MaxGroups - Len(rs),
                                MaxItems - TotalTitles(rs))} :
         rs \in GroupsWithin(RssGroups, MaxGroups, MaxItems)}

----------------------------------------------------------------------------
(* AIAnalyzer._prepare_news_content *)

\* the keyword list of the hot-list loop
HotKeywords == << <<"bao", "xian">>, <<"A", "I">>, <<"an", "quan">>, <<"xian">> >>

\* HotKeywordMatch comparing with regard to case
HotKeywordMatch_CaseSensitive(title) ==
  \E i \in 1..Len(HotKeywords) : Contains(HotKeywords[i], title)

\* any(k.lower() in title.lower() for k in [...])
HotKeywordMatch(title) ==
  \E i \in 1..Len(HotKeywords) :
    Contains(LowerStr(HotKeywords[i]), LowerStr(title))

\* search_and_research that exists and sends the search request for any title
search_and_research_Searches(r, title) ==
  [exc |-> "none", extra_info |-> <<>>, reqs |-> <<SearchRequest>>]

\* self.researcher.search_and_research(title): the class Researcher has no
\* such attribute, the lookup raises before anything is called and before any
\* request (reqs) is issued
search_and_research(r, title) ==
  [exc |-> IF "search_and_research" \in ResearcherAttrs THEN "none"
           ELSE "AttributeError",
   extra_info |-> <<>>, reqs |-> <<>>]

\* the two header lines and the line of an item
RssHeader == [kind |-> "header", src |-> "rss", title |-> <<>>, extra_info |-> <<>>]
HotHeader == [kind |-> "header", src |-> "hot", title |-> <<>>, extra_info |-> <<>>]
ItemLine(src, title, extra) ==
  [kind |-> "item", src |-> src, title |-> title, extra_info |-> extra]

\* both loops are left
LoopEnd == [g |-> 0, t |-> 0]

\* if count >= self.max_news: break
CapReached(c, max_news) == c >= max_news

RECURSIVE RssSeek(_, _, _, _, _)
\* the next title the RSS loops reach from group g, index t, or LoopEnd
RssSeek(rs, g, t, c, max_news) ==
  IF g > Len(rs) THEN LoopEnd
  ELSE IF t > Len(rs[g].titles)
    THEN IF CapReached(c, max_news) THEN LoopEnd
         ELSE RssSeek(rs, g + 1, 1, c, max_news)
  ELSE [g |-> g, t |-> t]

RECURSIVE HotSeek(_, _, _, _, _)
\* the next title the hot-list loops reach from group g, index t, or LoopEnd
HotSeek(st, g, t, c, max_news) ==
  IF g > Len(st) THEN LoopEnd
  ELSE IF st[g].word = "" \/ st[g].titles = <<>> \/ t > Len(st[g].titles)
    THEN IF CapReached(c, max_news) THEN LoopEnd
         ELSE HotSeek(st, g + 1, 1, c, max_news)
  ELSE [g |-> g, t |-> t]

\* HotEntry without the test of the cap
HotEntry_NoCap(st, c, max_news) == st # <<>>

\* if stats and count < self.max_news
HotEntry(st, c, max_news) == st # <<>> /\ c < max_news

\* control after the RSS part, with lines ls and count c
AfterRss(st, ls, c, max_news) ==
  IF HotEntry(st, c, max_news)
    THEN LET p == HotSeek(st, 1, 1, c, max_news)
         IN [pc |-> IF p = LoopEnd THEN "aggregated" ELSE "hot",
             lines |-> Append(ls, HotHeader), pos |-> p]
  ELSE [pc |-> "aggregated", lines |-> ls, pos |-> LoopEnd]

\* control at the start of _prepare_news_content
AggregateStart(s, st, rs) ==
  IF s.include_rss /\ rs # <<>>
    THEN LET p == RssSeek(rs, 1, 1, 0, s.max_news)
         IN IF p = LoopEnd THEN AfterRss(st, <<RssHeader>>, 0, s.max_news)
            ELSE [pc |-> "rss", lines |-> <<RssHeader>>, pos |-> p]
  ELSE AfterRss(st, <<>>, 0, s.max_news)

\* "\n".join(lines) is the empty string
ContentEmpty(ls) == ls = <<>>

----------------------------------------------------------------------------
(* AIAnalyzer._call_ai_api and the except branch of analyze *)

\* the urls table of _get_api_url
ProviderUrls == [deepseek |-> "deepseek_url", openai |-> "openai_url"]

\* _get_api_url that falls back to the openai endpoint for an unknown provider
_get_api_url_FallsBack(s) ==
  IF s.base_url # "" THEN [exc |-> "none", url |-> s.base_url]
  ELSE IF s.provider \in DOMAIN ProviderUrls
    THEN [exc |-> "none", url |-> ProviderUrls[s.provider]]
  ELSE [exc |-> "none", url |-> ProviderUrls.openai]

\* AIAnalyzer._get_api_url
_get_api_url(s) ==
  IF s.base_url # "" THEN [exc |-> "none", url |-> s.base_url]
  ELSE IF s.provider \in DOMAIN ProviderUrls
    THEN [exc |-> "none", url |-> ProviderUrls[s.provider]]
  ELSE [exc |-> "ValueError", url |-> ""]

\* the url the request of _call_ai_api goes to, or the exception before it
RequestTarget(s) ==
  IF s.provider = "gemini" THEN [exc |-> "none", url |-> "gemini_url"]
  ELSE _get_api_url(s)

\* what requests.post, raise_for_status and the extraction of the text raise
HttpFailures ==
  {"ReadTimeout", "ConnectTimeout", "ConnectionError", "HTTPError",
   "JSONDecodeError", "KeyError"}

\* isinstance(e, requests.exceptions.Timeout)
IsTimeout(exc) == exc \in {"ReadTimeout", "ConnectTimeout"}

\* isinstance(e, requests.exceptions.ConnectionError)
IsConnectionError(exc) == exc \in {"ConnectionError", "ConnectTimeout"}

\* FriendlyMsg that tests for a connection error first
FriendlyMsg_ConnectionFirst(exc) ==
  IF IsConnectionError(exc) THEN "connection"
  ELSE IF IsTimeout(exc) THEN "timeout"
  ELSE "other"

\* friendly_msg
FriendlyMsg(exc) ==
  IF IsTimeout(exc) THEN "timeout"
  ELSE IF IsConnectionError(exc) THEN "connection"
  ELSE "other"

\* the result of the except branch of analyze
ExceptResult(exc) == [AIAnalysisResult EXCEPT !.error = FriendlyMsg(exc)]

\* the texts the provider answers with in the pipeline runs
PipelineResponses ==
  {<<>>, <<WS>>, <<FENCE, JSONTAG, OBJS, FENCE>>, <<X1>>}

----------------------------------------------------------------------------
(* AIAnalyzer._load_prompt_template and the prompt of analyze.  A prompt    *)
(* file is a sequence of words; "[system]", "[user]", the placeholders and  *)
(* " " (whitespace) are words of their own.                                 *)

\* index of the first occurrence of the word w in s, 0 when there is none
IndexOf(s, w) ==
  IF \E i \in 1..Len(s) : s[i] = w THEN Min({i \in 1..Len(s) : s[i] = w}) ELSE 0

\* s.split(w)[0]
SplitFirst(s, w) ==
  IF IndexOf(s, w) = 0 THEN s ELSE SubSeq(s, 1, IndexOf(s, w) - 1)

\* s.split(w)[1], for w in s
SplitSecond(s, w) == SplitFirst(SubSeq(s, IndexOf(s, w) + 1, Len(s)), w)

\* AIAnalyzer._load_prompt_template; file is the prompt file: whether it
\* exists and its text
_load_prompt_template(file) ==
  IF ~file.exists THEN [system_prompt |-> <<>>, user_prompt_template |-> <<>>]
  ELSE IF IndexOf(file.content, "[system]") # 0 /\ IndexOf(file.content, "[user]") # 0
    THEN LET system_part == SplitFirst(file.content, "[user]")
             user_part == SplitSecond(file.content, "[user]")
         IN [system_prompt |->
               IF IndexOf(system_part, "[system]") # 0
                 THEN StripSpaces(SplitSecond(system_part, "[system]"))
               ELSE <<>>,
             user_prompt_template |-> StripSpaces(user_part)]
  ELSE [system_prompt |-> <<>>, user_prompt_template |-> file.content]

RECURSIVE Replace(_, _, _)
\* str.replace(w, val)
Replace(s, w, val) ==
  IF s = <<>> THEN <<>>
  ELSE (IF Head(s) = w THEN val ELSE <<Head(s)>>) \o Replace(Tail(s), w, val)

\* the text of one line of the content block
LineText(l) ==
  IF l.kind = "header" THEN <<"\n", "###", l.src>>
  ELSE <<"-", "[", l.src, "]">> \o l.title
       \o (IF l.extra_info # <<>> THEN <<"\n", "+">> \o l.extra_info ELSE <<>>)

\* "\n".join(lines)
news_content(ls) == JoinWith([i \in 1..Len(ls) |-> LineText(ls[i])], <<"\n">>)

\* [s.get("word", "") for s in stats if s.get("word")]
Keywords(st) ==
  LET ws == SelectSeq(st, LAMBDA g : g.word # "")
  IN [i \in 1..Len(ws) |-> <<ws[i].word>>]

\* keywords[:20]
KeywordLimit == 20

\* user_prompt of analyze, called with the default report_mode, report_type,
\* platforms and keywords
user_prompt(s, st, rs, ls) ==
  LET t0 == _load_prompt_template(s.prompt_file).user_prompt_template
      t1 == Replace(t0, "{report_mode}", <<"daily">>)
      t2 == Replace(t1, "{report_type}", <<"daily_summary">>)
      t3 == Replace(t2, "{current_time}", <<"now">>)
      t4 == Replace(t3, "{news_count}", <<ToString(TotalTitles(st))>>)
      t5 == Replace(t4, "{rss_count}", <<ToString(TotalTitles(rs))>>)
      t6 == Replace(t5, "{platforms}", <<"multi_platform">>)
      t7 == Replace(t6, "{keywords}",
                    IF Keywords(st) # <<>>
                      THEN JoinWith(Take(Keywords(st), KeywordLimit), <<", ">>)
                    ELSE <<"none">>)
  IN Replace(t7, "{news_content}", news_content(ls))

\* the prompt files an analyzer is constructed with
PromptMissing == [exists |-> FALSE, content |-> <<>>]
PromptSectioned ==
  [exists |-> TRUE,
   content |-> <<"[system]", " ", "sys", " ", "[user]", " ", "usr",
                 "{news_count}", "{rss_count}", "{keywords}", "{news_content}">>]
PromptPlain == [exists |-> TRUE, content |-> <<"usr", "{news_content}">>]
PromptFiles == {PromptMissing, PromptSectioned, PromptPlain}

----------------------------------------------------------------------------
(* AIAnalyzer.analyze *)

\* ApiKeyMissing that never reports a missing key
ApiKeyMissing_Never(s) == FALSE

\* if not self.api_key
ApiKeyMissing(s) == s.api_key = ""

\* WithCounts that writes the counts only into a successful result
WithCounts_OnSuccess(res, st, rs, analyzed, max_news) ==
  IF ~res.success THEN res
  ELSE [res EXCEPT !.total_news = TotalTitles(st) + TotalTitles(rs),
                   !.hotlist_count = TotalTitles(st),
                   !.rss_count = TotalTitles(rs),
                   !.analyzed_news = analyzed,
                   !.max_news_limit = max_news]

\* the counts analyze writes into the result
WithCounts(res, st, rs, analyzed, max_news) ==
  [res EXCEPT !.total_news = TotalTitles(st) + TotalTitles(rs),
              !.hotlist_count = TotalTitles(st),
              !.rss_count = TotalTitles(rs),
              !.analyzed_news = analyzed,
              !.max_news_limit = max_news]

Goto(a) == pc' = a.pc /\ lines' = a.lines /\ pos' = a.pos

WalkEntry(src, title, researched, included) ==
  [src |-> src, title |-> title, researched |-> researched, included |-> included]

\* entry of analyze: the API key check and the start of _prepare_news_content
analyzeCall(inputs) ==
  /\ pc = "idle"
  /\ \E call \in inputs :
       /\ stats' = call.stats
       /\ rss_stats' = call.rss_stats
       /\ op' = "analyze"
       /\ IF ApiKeyMissing(self)
            THEN /\ result' = [AIAnalysisResult EXCEPT !.error = "no_api_key"]
                 /\ pc' = "done"
                 /\ UNCHANGED <<lines, pos>>
          ELSE /\ Goto(AggregateStart(self, call.stats, call.rss_stats))
               /\ UNCHANGED result
  /\ UNCHANGED <<self, count, walk, netlog, response, raised, arg, ret>>

analyze == analyzeCall(CallInputs)

\* one iteration of the inner RSS loop
RssItem ==
  /\ pc = "rss"
  /\ LET title == rss_stats[pos.g].titles[pos.t].title
         max_news == self.max_news
         r == IF self.researcher.enabled
                THEN search_and_research(self.researcher, title)
              ELSE [exc |-> "none", extra_info |-> <<>>, reqs |-> <<>>]
         c == count + 1
         ls == Append(lines, ItemLine("rss", title, r.extra_info))
         after(p, l, n) == IF p = LoopEnd THEN AfterRss(stats, l, n, max_news)
                           ELSE [pc |-> "rss", lines |-> l, pos |-> p]
     IN IF title = <<>>
          THEN /\ Goto(after(RssSeek(rss_stats, pos.g, pos.t + 1, count, max_news),
                             lines, count))
               /\ walk' = Append(walk, WalkEntry("rss", title, FALSE, FALSE))
               /\ UNCHANGED <<count, raised, netlog>>
        ELSE IF r.exc # "none"
          THEN /\ raised' = r.exc
               /\ pc' = "raised"
               /\ walk' = Append(walk, WalkEntry("rss", title, TRUE, FALSE))
               /\ netlog' = netlog \o r.reqs
               /\ UNCHANGED <<lines, count, pos>>
        ELSE /\ count' = c
             /\ walk' = Append(walk, WalkEntry("rss", title, self.researcher.enabled, TRUE))
             /\ Goto(after(IF CapReached(c, max_news)
                             THEN (IF CapReached(c, max_news) THEN LoopEnd
                                   ELSE RssSeek(rss_stats, pos.g + 1, 1, c, max_news))
                           ELSE RssSeek(rss_stats, pos.g, pos.t + 1, c, max_news),
                           ls, c))
             /\ netlog' = netlog \o r.reqs
             /\ UNCHANGED raised
  /\ UNCHANGED <<self, stats, rss_stats, response, result, op, arg, ret>>

\* one iteration of the inner hot-list loop
HotItem ==
  /\ pc = "hot"
  /\ LET title == stats[pos.g].titles[pos.t].title
         max_news == self.max_news
         match == HotKeywordMatch(title)
         r == IF match THEN search_and_research(self.researcher, title)
              ELSE [exc |-> "none", extra_info |-> <<>>, reqs |-> <<>>]
         c == count + 1
         ls == Append(lines, ItemLine("hot", title, r.extra_info))
         after(p, l) == [pc |-> IF p = LoopEnd THEN "aggregated" ELSE "hot",
                         lines |-> l, pos |-> p]
     IN IF title = <<>>
          THEN /\ Goto(after(HotSeek(stats, pos.g, pos.t + 1, count, max_news), lines))
               /\ walk' = Append(walk, WalkEntry("hot", title, FALSE, FALSE))
               /\ UNCHANGED <<count, raised, netlog>>
        ELSE IF r.exc # "none"
          THEN /\ raised' = r.exc
               /\ pc' = "raised"
               /\ walk' = Append(walk, WalkEntry("hot", title, TRUE, FALSE))
               /\ netlog' = netlog \o r.reqs
               /\ UNCHANGED <<lines, count, pos>>
        ELSE /\ count' = c
             /\ walk' = Append(walk, WalkEntry("hot", title, match, TRUE))
             /\ Goto(after(IF CapReached(c, max_news)
                             THEN (IF CapReached(c, max_news) THEN LoopEnd
                                   ELSE HotSeek(stats, pos.g + 1, 1, c, max_news))
                           ELSE HotSeek(stats, pos.g, pos.t + 1, c, max_news),
                           ls))
             /\ netlog' = netlog \o r.reqs
             /\ UNCHANGED raised
  /\ UNCHANGED <<self, stats, rss_stats, response, result, op, arg, ret>>

\* after _prepare_news_content: the empty-content check and the prompt
BuildPrompt ==
  /\ pc = "aggregated"
  /\ IF ContentEmpty(lines)
       THEN /\ result' = WithCounts([AIAnalysisResult EXCEPT !.error = "no_news_content"],
                                    stats, rss_stats, 0, self.max_news)
            /\ pc' = "done"
     ELSE /\ pc' = "invoke"
          /\ UNCHANGED result
  /\ UNCHANGED <<self, stats, rss_stats, lines, count, pos, walk, netlog,
                 response, raised, op, arg, ret>>

\* the request of _call_openai_compatible or _call_gemini and what it met
LlmRequest(s, url, user, outcome) ==
  [kind |-> "llm", url |-> url,
   system |-> _load_prompt_template(s.prompt_file).system_prompt,
   user |-> user, outcome |-> outcome]

\* _call_ai_api that sends the request again after a failed one
_call_ai_api_Retry ==
  /\ pc = "invoke"
  /\ \E target \in {RequestTarget(self)},
        user \in {user_prompt(self, stats, rss_stats, lines)} :
        IF target.exc # "none"
          THEN /\ result' = ExceptResult(target.exc)
               /\ pc' = "done"
               /\ UNCHANGED <<netlog, response>>
        ELSE \/ \E exc \in HttpFailures :
                  /\ netlog' = Append(netlog, LlmRequest(self, target.url, user, exc))
                  /\ IF netlog = <<>>
                       THEN pc' = "invoke" /\ UNCHANGED result
                     ELSE pc' = "done" /\ result' = ExceptResult(exc)
                  /\ UNCHANGED response
             \/ \E text \in PipelineResponses :
                  /\ netlog' = Append(netlog, LlmRequest(self, target.url, user, "ok"))
                  /\ response' = text
                  /\ pc' = "parse"
                  /\ UNCHANGED result
  /\ UNCHANGED <<self, stats, rss_stats, lines, count, pos, walk, raised, op, arg, ret>>

\* self._call_ai_api(user_prompt) inside the try of analyze
_call_ai_api ==
  /\ pc = "invoke"
  /\ \E target \in {RequestTarget(self)},
        user \in {user_prompt(self, stats, rss_stats, lines)} :
        IF target.exc # "none"
          THEN /\ result' = ExceptResult(target.exc)
               /\ pc' = "done"
               /\ UNCHANGED <<netlog, response>>
        ELSE \/ \E exc \in HttpFailures :
                  /\ netlog' = Append(netlog, LlmRequest(self, target.url, user, exc))
                  /\ result' = ExceptResult(exc)
                  /\ pc' = "done"
                  /\ UNCHANGED response
             \/ \E text \in PipelineResponses :
                  /\ netlog' = Append(netlog, LlmRequest(self, target.url, user, "ok"))
                  /\ response' = text
                  /\ pc' = "parse"
                  /\ UNCHANGED result
  /\ UNCHANGED <<self, stats, rss_stats, lines, count, pos, walk, raised, op, arg, ret>>

\* _parse_response and the five count assignments of analyze
Finalize ==
  /\ pc = "parse"
  /\ result' = WithCounts(_parse_response(response), stats, rss_stats, count,
                          self.max_news)
  /\ pc' = "done"
  /\ UNCHANGED <<self, stats, rss_stats, lines, count, pos, walk, netlog,
                 response, raised, op, arg, ret>>

----------------------------------------------------------------------------
(* The pipeline: one AIAnalyzer, one call of analyze *)

Providers == {"openai", "deepseek", "gemini", "unknownprovider"}
BaseUrls == {"", "custom_url"}
TriggerLists == {<<>>, << <<"x">> >>}

ResearcherConfigs ==
  [enabled : BOOLEAN, api_key : {"", "tvly"}, triggers : TriggerLists]

Configs ==
  [api_key : {"", "key"}, provider : {"openai"}, base_url : {""},
   max_news : 0..MaxNewsBound, include_rss : BOOLEAN,
   prompt_file : {PromptSectioned}, researcher : ResearcherConfigs]

Init ==
  /\ self \in Configs
  /\ pc = "idle"
  /\ stats = <<>>
  /\ rss_stats = <<>>
  /\ lines = <<>>
  /\ count = 0
  /\ pos = LoopEnd
  /\ walk = <<>>
  /\ netlog = <<>>
  /\ response = <<>>
  /\ result = AIAnalysisResult
  /\ raised = "none"
  /\ op = "none"
  /\ arg = <<>>
  /\ ret = <<>>

Next == analyze \/ RssItem \/ HotItem \/ BuildPrompt \/ _call_ai_api \/ Finalize

Spec == Init /\ [][Next]_vars

----------------------------------------------------------------------------
(* The pipeline over every provider and base URL, on short inputs *)

\* the argument pairs with at most one group of one title per source
ShortCallInputs ==
  {c \in CallInputs :
     /\ Len(c.stats) <= 1 /\ TotalTitles(c.stats) <= 1
     /\ Len(c.rss_stats) <= 1 /\ TotalTitles(c.rss_stats) <= 1}

analyzeShort == analyzeCall(ShortCallInputs)

InitProvider ==
  /\ self \in [api_key : {"", "key"}, provider : Providers, base_url : BaseUrls,
               max_news : 0..MaxNewsBound, include_rss : BOOLEAN,
               prompt_file : PromptFiles,
               researcher : [enabled : BOOLEAN, api_key : {"tvly"},
                             triggers : {<<>>}]]
  /\ pc = "idle"
  /\ stats = <<>>
  /\ rss_stats = <<>>
  /\ lines = <<>>
  /\ count = 0
  /\ pos = LoopEnd
  /\ walk = <<>>
  /\ netlog = <<>>
  /\ response = <<>>
  /\ result = AIAnalysisResult
  /\ raised = "none"
  /\ op = "none"
  /\ arg = <<>>
  /\ ret = <<>>

NextProvider ==
  analyzeShort \/ RssItem \/ HotItem \/ BuildPrompt \/ _call_ai_api \/ Finalize

SpecProvider == InitProvider /\ [][NextProvider]_vars

----------------------------------------------------------------------------
(* The Researcher operations, called on their own *)

GateQueries == SeqsUpTo({"a", "A", "x"}, MaxQueryLen)
GateKeywords == {<<"a">>, <<"x", "a">>}
GateTriggerLists == SeqsUpTo(GateKeywords, MaxTriggers)

GateConfigs ==
  [enabled : BOOLEAN, api_key : {"", "tvly"}, triggers : GateTriggerLists]

\* config.get defaults of AIAnalyzer.__init__ with a key configured
DefaultConfig ==
  [api_key |-> "key", provider |-> "openai", base_url |-> "", max_news |-> 50,
   include_rss |-> TRUE, prompt_file |-> PromptSectioned,
   researcher |-> [enabled |-> FALSE, api_key |-> "", triggers |-> <<>>]]

SearchResultItems ==
  [url : {"", "u"}, raw_content : {<<>>, <<"r">>}, content : {<<>>, <<"c">>}]

\* what a request to the search service can meet
SearchFailures == RequestExceptions \cup {"AttributeError"}
SearchEnvs ==
  {[exc |-> e, results |-> <<>>] : e \in SearchFailures}
  \cup {[exc |-> "none", results |-> rl] : rl \in SeqsUpTo(SearchResultItems, MaxResults)}

\* what the extract request can meet
ExtractEnvs ==
  {[exc |-> e, content |-> <<>>, raw_content |-> <<>>] : e \in SearchFailures}
  \cup [exc : {"none"}, content : {<<>>, <<"e">>}, raw_content : {<<>>, <<"E">>}]

\* what the page request can meet
Pages == SeqsUpTo({"<t>", "w", " "}, MaxPageLen)
GetEnvs ==
  {[exc |-> e, text |-> <<>>] : e \in RequestExceptions}
  \cup {[exc |-> "none", text |-> p] : p \in Pages}

\* the outcomes of read_article drawn inside fetch_deep_content
NoArticleEnv ==
  [ex |-> [exc |-> "none", content |-> <<>>, raw_content |-> <<>>],
   gt |-> [exc |-> "none", text |-> <<>>]]
ArticleEnvs ==
  [ex : {[exc |-> "HTTPError", content |-> <<>>, raw_content |-> <<>>],
         [exc |-> "AttributeError", content |-> <<>>, raw_content |-> <<>>],
         [exc |-> "none", content |-> <<"e">>, raw_content |-> <<>>],
         [exc |-> "none", content |-> <<>>, raw_content |-> <<>>]},
   gt : {[exc |-> "HTTPError", text |-> <<>>],
         [exc |-> "none", text |-> <<"<t>", "w">>]}]
ResultsWithEnv ==
  {[res |-> r, env |-> e] : r \in {x \in SearchResultItems : x.url # ""}, e \in ArticleEnvs}
  \cup {[res |-> r, env |-> NoArticleEnv] : r \in {x \in SearchResultItems : x.url = ""}}

\* the state after an operation was called with the arguments a and
\* returned out or raised exc; ret holds the returned value under the name of
\* its Python type
Returned(name, a, type, out) ==
  /\ pc' = "r_done"
  /\ op' = name
  /\ arg' = a
  /\ ret' = [t \in {type} |-> out.value]
  /\ raised' = out.exc
  /\ netlog' = out.reqs
  /\ UNCHANGED <<self, stats, rss_stats, lines, count, pos, walk, response, result>>

ShouldTriggerCall ==
  /\ pc = "r_idle"
  /\ \E q \in GateQueries :
       Returned("_should_trigger", [query |-> q], "bool",
                [exc |-> "none", value |-> _should_trigger(self.researcher, q),
                 reqs |-> <<>>])

SearchNewsCall ==
  /\ pc = "r_idle"
  /\ \E q \in GateQueries, env \in SearchEnvs :
       Returned("search_news", [query |-> q], "list",
                search_news(self.researcher, q, env))

ReadArticleCall ==
  /\ pc = "r_idle"
  /\ \E url \in {"", "u"}, ex \in ExtractEnvs, gt \in GetEnvs :
       Returned("read_article", [url |-> url, ex |-> ex, gt |-> gt], "str",
                read_article(self.researcher, url, ex, gt))

\* the titles fetch_deep_content is called with
DeepTitles == {q \in GateQueries : Len(q) <= 1}

FetchDeepContentCall ==
  /\ pc = "r_idle"
  /\ \E q \in DeepTitles :
       \/ \E e \in SearchFailures :
            Returned("fetch_deep_content", [query |-> q], "str",
                     fetch_deep_content(self.researcher, q,
                                        [exc |-> e, results |-> <<>>], <<>>))
       \/ \E rl \in SeqsUpTo(ResultsWithEnv, MaxResults) :
            Returned("fetch_deep_content", [query |-> q], "str",
                     fetch_deep_content(self.researcher, q,
                       [exc |-> "none",
                        results |-> [i \in 1..Len(rl) |-> rl[i].res]],
                       [i \in 1..Len(rl) |-> rl[i].env]))

ConfigFetchDeepContentCall ==
  /\ pc = "r_idle"
  /\ \E q \in GateQueries, env \in SearchEnvs :
       Returned("config.fetch_deep_content", [query |-> q], "str",
                config_fetch_deep_content(self.researcher, q, env))

InitResearcher ==
  /\ self \in {[DefaultConfig EXCEPT !.researcher = r] : r \in GateConfigs}
  /\ pc = "r_idle"
  /\ stats = <<>>
  /\ rss_stats = <<>>
  /\ lines = <<>>
  /\ count = 0
  /\ pos = LoopEnd
  /\ walk = <<>>
  /\ netlog = <<>>
  /\ response = <<>>
  /\ result = AIAnalysisResult
  /\ raised = "none"
  /\ op = "none"
  /\ arg = <<>>
  /\ ret = <<>>

NextResearcher ==
  \/ ShouldTriggerCall
  \/ SearchNewsCall
  \/ ReadArticleCall
  \/ FetchDeepContentCall
  \/ ConfigFetchDeepContentCall

SpecResearcher == InitResearcher /\ [][NextResearcher]_vars

----------------------------------------------------------------------------
(* The response parser, called on its own *)

ResponseRuns == {WS, FENCE, JSONTAG, OBJS, OBJE, ARR, X1, XBIG}
Responses == SeqsUpTo(ResponseRuns, MaxRespLen)

ParseResponseCall ==
  /\ pc = "p_idle"
  /\ \E text \in Responses :
       /\ arg' = text
       /\ result' = _parse_response(text)
  /\ pc' = "p_done"
  /\ op' = "_parse_response"
  /\ UNCHANGED <<self, stats, rss_stats, lines, count, pos, walk, netlog,
                 response, raised, ret>>

InitParse ==
  /\ self = DefaultConfig
  /\ pc = "p_idle"
  /\ stats = <<>>
  /\ rss_stats = <<>>
  /\ lines = <<>>
  /\ count = 0
  /\ pos = LoopEnd
  /\ walk = <<>>
  /\ netlog = <<>>
  /\ response = <<>>
  /\ result = AIAnalysisResult
  /\ raised = "none"
  /\ op = "none"
  /\ arg = <<>>
  /\ ret = <<>>

NextParse == ParseResponseCall

SpecParse == InitParse /\ [][NextParse]_vars

----------------------------------------------------------------------------
(* Properties of the aggregation *)

\* positions of analyze at which _prepare_news_content has returned
Aggregated == pc \in {"aggregated", "invoke", "parse"}

\* analyze has returned a result
Done == op = "analyze" /\ pc = "done"

\* the item lines of the content block
ItemLines == SelectSeq(lines, LAMBDA l : l.kind = "item")

\* titles of the item lines of one source, in block order
LineTitles(src) ==
  LET ls == SelectSeq(ItemLines, LAMBDA l : l.src = src)
  IN [i \in 1..Len(ls) |-> ls[i].title]

\* the titles a source supplies, in the order supplied, empty ones left out
SuppliedRss ==
  SelectSeq(Flatten([g \in 1..Len(rss_stats) |->
                       [i \in 1..Len(rss_stats[g].titles) |->
                          rss_stats[g].titles[i].title]]),
            LAMBDA t : t # <<>>)
SuppliedHot ==
  SelectSeq(Flatten([g \in 1..Len(stats) |->
                       IF stats[g].word = "" THEN <<>>
                       ELSE [i \in 1..Len(stats[g].titles) |->
                               stats[g].titles[i].title]]),
            LAMBDA t : t # <<>>)

IsPrefix(a, b) == Len(a) <= Len(b) /\ SubSeq(b, 1, Len(a)) = a

\* C1: when the aggregation has returned, includedCount <= maxNewsLimit and
\* includedCount <= hotlistCount + rssCount; every result analyze returns has
\* analyzedNews <= maxNewsLimit and analyzedNews <= hotlistCount + rssCount.
C1_CountWithinCap ==
  /\ Aggregated =>
       /\ count <= self.max_news
       /\ count <= TotalTitles(stats) + TotalTitles(rss_stats)
  /\ Done =>
       /\ result.analyzed_news <= result.max_news_limit
       /\ result.analyzed_news <= result.hotlist_count + result.rss_count

\* C2: RSS items come before hot-list items up to the cap: each source is
\* included in the order supplied; a hot-list item is in the block only if,
\* with RSS enabled, every RSS item with a title is in the block before it and
\* fewer than maxNews items precede it; with maxNews = 1 and an RSS item
\* available no hot-list item is included.
C2_RssBeforeHot ==
  /\ IsPrefix(LineTitles("rss"), SuppliedRss)
  /\ IsPrefix(LineTitles("hot"), SuppliedHot)
  /\ \A j \in 1..Len(ItemLines) :
       ItemLines[j].src = "hot" =>
         /\ j - 1 < self.max_news
         /\ \A i \in 1..Len(ItemLines) : ItemLines[i].src = "rss" => i < j
         /\ self.include_rss => LineTitles("rss") = SuppliedRss
  /\ (self.max_news = 1 /\ self.include_rss /\ SuppliedRss # <<>>)
       => LineTitles("hot") = <<>>
  /\ ~self.include_rss => LineTitles("rss") = <<>>

\* C2 witness: the aggregation returned a block with an RSS item followed by
\* a hot-list item
C2_Witness ==
  /\ Aggregated
  /\ LineTitles("rss") # <<>>
  /\ LineTitles("hot") # <<>>

\* C3: analyze on an analyzer without API key returns success=false with the
\* configuration error and issues no request and no research call.
C3_NoKeyNoNetwork ==
  (op = "analyze" /\ self.api_key = "") =>
    /\ pc = "done"
    /\ raised = "none"
    /\ ~result.success
    /\ result.error = "no_api_key"
    /\ netlog = <<>>
    /\ walk = <<>>

\* C3 witness: analyze returned for an analyzer without key and with news
C3_Witness ==
  /\ Done
  /\ self.api_key = ""
  /\ SuppliedRss # <<>>
  /\ SuppliedHot # <<>>

\* C4: no exception leaves analyze, and a returned failure carries a
\* non-empty error.
C4_NoExceptionEscapes ==
  /\ raised = "none"
  /\ (Done /\ ~result.success) => result.error # ""

\* C5: when the aggregation included no item, analyze returns success=false
\* with the empty-content error and the provider is never called.
C5_NothingIncludedFails ==
  (op = "analyze" /\ self.api_key # "" /\ count = 0) =>
    /\ pc \notin {"invoke", "parse"}
    /\ netlog = <<>>
    /\ Done => (~result.success /\ result.error = "no_news_content")

----------------------------------------------------------------------------
(* Properties of the research component *)

\* a Researcher operation has returned or raised
ResearchDone(names) == pc = "r_done" /\ op \in names

\* the decision section 4.1 states for configuration r and query q
GateDecision(r, q) ==
  /\ r.enabled
  /\ r.api_key # ""
  /\ \/ r.triggers = <<>>
     \/ \E i \in 1..Len(r.triggers) : Contains(r.triggers[i], q)

\* C6: a failure of the search request is not escalated: the research
\* operation raises nothing and yields "not found".
C6_ResearchFailureSwallowed ==
  ResearchDone({"search_news", "fetch_deep_content"}) => raised = "none"

\* C7: every research component decides by the gate of section 4.1:
\* _should_trigger returns it, and each fetch_deep_content goes on to the
\* search request exactly when it is true.
C7_EveryGateDecides ==
  /\ ResearchDone({"_should_trigger"})
       => ret.bool = GateDecision(self.researcher, arg.query)
  /\ ResearchDone({"search_news", "fetch_deep_content", "config.fetch_deep_content"})
       => ((netlog # <<>>) = GateDecision(self.researcher, arg.query))

\* C8: in the RSS loop the research call is made for a titled item exactly
\* when the gate is true for its title, and an item that fails the gate is
\* included without a research call.
C8_RssResearchGated ==
  \A i \in 1..Len(walk) :
    (walk[i].src = "rss" /\ walk[i].title # <<>>) =>
      /\ walk[i].researched = GateDecision(self.researcher, walk[i].title)
      /\ ~GateDecision(self.researcher, walk[i].title) => walk[i].included

\* the keywords of the hot-list loop as the specification names them
AllowList == {<<"bao", "xian">>, <<"A", "I">>, <<"an", "quan">>, <<"xian">>}

\* C9 as stated: in the hot-list loop the research call is made for a titled
\* item exactly when its title contains one of the allow-list keywords.
C9_HotAllowListExact ==
  \A i \in 1..Len(walk) :
    (walk[i].src = "hot" /\ walk[i].title # <<>>) =>
      (walk[i].researched = (\E k \in AllowList : Contains(k, walk[i].title)))

\* C9 amended: in the hot-list loop the research call is made for a titled
\* item exactly when its title contains one of the allow-list keywords
\* compared without regard to case, whatever the configured trigger keywords,
\* API key and enabled flag of the researcher are.
C9_HotAllowListIgnoringCase ==
  \A i \in 1..Len(walk) :
    (walk[i].src = "hot" /\ walk[i].title # <<>>) =>
      (walk[i].researched =
         (\E k \in AllowList : Contains(LowerStr(k), LowerStr(walk[i].title))))

\* C9 witness: a hot-list item whose title matches a configured trigger but
\* no allow-list keyword was included without research, and the research call
\* was then made for an item that matches the allow-list and no trigger
C9_Witness ==
  /\ self.researcher.triggers # <<>>
  /\ \E i, j \in 1..Len(walk) :
       /\ i < j
       /\ walk[i].src = "hot" /\ walk[j].src = "hot"
       /\ walk[i].included /\ ~walk[i].researched
       /\ \E n \in 1..Len(self.researcher.triggers) :
            Contains(self.researcher.triggers[n], walk[i].title)
       /\ walk[j].researched
       /\ \A n \in 1..Len(self.researcher.triggers) :
            ~Contains(self.researcher.triggers[n], walk[j].title)

----------------------------------------------------------------------------
(* Properties of the response parser *)

\* the raw text is empty or whitespace only
Blank(raw) == \A i \in 1..Len(raw) : raw[i].c = "ws"

\* the raw text holds a JSON object somewhere
HasObject(raw) == \E i \in 1..Len(raw) : raw[i].c \in {"objS", "objE"}

\* C10: parse reports success=false exactly for an empty or whitespace-only
\* text, then with an error and seven empty fields; for any other text it
\* reports success=true; a text without a JSON object in it makes the
\* structured parse fail, and whenever it fails summary is the first 1000
\* characters of the text and error is non-empty.
C10_ParseLenient ==
  (op = "_parse_response" /\ pc = "p_done") =>
    /\ result.success = ~Blank(arg)
    /\ result.raw_response = arg
    /\ Blank(arg) =>
         /\ result.error # ""
         /\ \A f \in ContentFields : result[f] = <<>>
    /\ ~Blank(arg) =>
         /\ ~HasObject(arg) => result.error # ""
         /\ result.error # "" =>
              /\ result.summary = TakeChars(arg, 1000)
              /\ CharLen(result.summary) <= 1000
         /\ result.error = "" =>
              /\ HasObject(arg)
              /\ \A f \in ContentFields : result[f] \in {<<>>, <<X1>>}

\* C10 witness: a text longer than 1000 characters that is not JSON was
\* parsed
C10_Witness ==
  /\ op = "_parse_response" /\ pc = "p_done"
  /\ CharLen(arg) > 1000
  /\ result.success
  /\ result.error # ""

----------------------------------------------------------------------------
(* Properties of the provider call *)

\* the LLM requests issued so far
LlmRequests == SelectSeq(netlog, LAMBDA q : q.kind = "llm")

\* the research requests issued so far
ResearchRequests == SelectSeq(netlog, LAMBDA q : q.kind \in {"search", "extract", "get"})

\* analyze has returned after it went on to the provider call
ReturnedAfterInvoke ==
  Done /\ self.api_key # "" /\ ~ContentEmpty(lines)

\* C11: with an unknown provider name and no base URL the provider call
\* fails before any LLM request is issued, and analyze returns success=false
\* with the message of the generic failure kind.
C11_UnknownProviderFails ==
  (op = "analyze" /\ self.provider = "unknownprovider" /\ self.base_url = "") =>
    /\ LlmRequests = <<>>
    /\ pc # "parse"
    /\ Done => ~result.success
    /\ ReturnedAfterInvoke => result.error = "other"

\* C11 witness: analyze returned from the provider call of an unknown
\* provider without base URL
C11_Witness ==
  /\ ReturnedAfterInvoke
  /\ self.provider = "unknownprovider"
  /\ self.base_url = ""
  /\ ~result.success
  /\ netlog = <<>>

\* the default endpoints of the providers
DefaultEndpoints ==
  [deepseek |-> "deepseek_url", openai |-> "openai_url", gemini |-> "gemini_url"]

\* C12: a configured base URL takes precedence for every provider: with a
\* non-empty BASE_URL the LLM request goes to it, gemini included; with an
\* empty one it goes to the provider's default endpoint.
C12_BaseUrlWins ==
  \A i \in 1..Len(LlmRequests) :
    /\ self.base_url # "" => LlmRequests[i].url = self.base_url
    /\ self.base_url = "" =>
         /\ self.provider \in DOMAIN DefaultEndpoints
         /\ LlmRequests[i].url = DefaultEndpoints[self.provider]

\* the provider answered the LLM request of this call with a text
ReachedParse == LlmRequests # <<>> /\ LlmRequests[Len(LlmRequests)].outcome = "ok"

\* the titles of a list of groups, empty ones included
AllTitles(groups) ==
  Flatten([g \in 1..Len(groups) |->
             [i \in 1..Len(groups[g].titles) |-> groups[g].titles[i].title]])

\* C13: every result analyze returns after the provider answered carries
\* the counts of the aggregation: totalNews = hotlistTotal + rssTotal,
\* hotlistCount, rssCount, analyzedNews = includedCount and maxNewsLimit = the
\* configured cap, whether the parse reported success or failure.
C13_CountsOverlaid ==
  (Done /\ ReachedParse) =>
    /\ result.hotlist_count = Len(AllTitles(stats))
    /\ result.rss_count = Len(AllTitles(rss_stats))
    /\ result.total_news = Len(AllTitles(stats)) + Len(AllTitles(rss_stats))
    /\ result.analyzed_news = Len(ItemLines)
    /\ result.max_news_limit = self.max_news

\* C13 witness: the parse reported failure for a call that included fewer
\* items than were supplied
C13_Witness ==
  /\ Done /\ ReachedParse
  /\ ~result.success
  /\ result.analyzed_news > 0
  /\ result.total_news > result.analyzed_news

\* C14: an analyzer whose prompt file is missing (empty system prompt and
\* empty user template) never returns a successful analysis: analyze returns
\* success=false with an error.
C14_MissingTemplateFails ==
  (Done /\ ~self.prompt_file.exists) =>
    /\ _load_prompt_template(self.prompt_file) =
         [system_prompt |-> <<>>, user_prompt_template |-> <<>>]
    /\ ~result.success
    /\ result.error # ""

\* the place of a position of analyze in the order ValidateConfig, Aggregate,
\* BuildPrompt, Invoke, Parse, Finalize
Stage(p) ==
  CASE p = "idle" -> 0
    [] p = "rss" -> 1
    [] p = "hot" -> 2
    [] p = "aggregated" -> 3
    [] p = "invoke" -> 4
    [] p = "parse" -> 5
    [] OTHER -> 6

\* C15: analyze moves through its steps in order and revisits none (only the
\* loops of the aggregation repeat); at most one LLM request is issued, after
\* the aggregation has finished, and no research call follows it.
C15_LinearOneRequest ==
  [][/\ \/ Stage(pc') > Stage(pc)
        \/ pc' = pc /\ pc \in {"rss", "hot"}
     /\ Len(LlmRequests') <= 1
     /\ LlmRequests' # <<>> => pc' \in {"parse", "done"}
     /\ LlmRequests' # LlmRequests => pc = "invoke"
     /\ pc \in {"aggregated", "invoke", "parse", "done"} =>
          /\ walk' = walk
          /\ lines' = lines
          /\ ResearchRequests' = ResearchRequests]_vars

\* C15 witness: analyze returned after two items were walked and one request
\* went to the gemini endpoint
C15_Witness ==
  /\ Done
  /\ Len(walk) >= 2
  /\ Len(LlmRequests) = 1
  /\ self.provider = "gemini"

\* the exception the provider call of this run ended with: the one the
\* request met, or the one raised before any request
InvokeFailure ==
  IF LlmRequests = <<>> THEN "ValueError"
  ELSE LlmRequests[Len(LlmRequests)].outcome

\* C16: an exception of the provider call becomes a result with
\* success=false whose message has exactly one kind: a timeout gives the
\* timeout message, a connection failure that is no timeout the connection
\* message, every other failure the generic message.
C16_FailureClassified ==
  (ReturnedAfterInvoke /\ ~ReachedParse) =>
    /\ raised = "none"
    /\ ~result.success
    /\ InvokeFailure \in {"ReadTimeout", "ConnectTimeout"} => result.error = "timeout"
    /\ InvokeFailure = "ConnectionError" => result.error = "connection"
    /\ InvokeFailure \in {"HTTPError", "ValueError", "JSONDecodeError", "KeyError"}
         => result.error = "other"
    /\ result.error \in {"timeout", "connection", "other"}

\* C16 witness: the request met a connect timeout, which is a timeout and a
\* connection error at once, and analyze returned
C16_Witness ==
  /\ ReturnedAfterInvoke
  /\ LlmRequests # <<>>
  /\ InvokeFailure = "ConnectTimeout"
  /\ result.error = "timeout"

----------------------------------------------------------------------------
(* Properties of read_article *)

\* the content of the body the extract request is answered with
Extracted(ex) == IF ex.content # <<>> THEN ex.content ELSE ex.raw_content

\* C17: read_article tries the extraction first and fetches the page only
\* when the extraction failed or gave no content; it returns the extracted
\* content, else the page text without tags, else the empty string, also for
\* an empty url; it never raises and sends at most one request per path.
C17_ReadArticleBestEffort ==
  ResearchDone({"read_article"}) =>
    LET firstOk == /\ self.researcher.api_key # ""
                   /\ arg.ex.exc = "none"
                   /\ Extracted(arg.ex) # <<>>
        secondOk == arg.gt.exc = "none"
        extracts == SelectSeq(netlog, LAMBDA q : q.kind = "extract")
        gets == SelectSeq(netlog, LAMBDA q : q.kind = "get")
    IN /\ raised = "none"
       /\ Len(extracts) <= 1 /\ Len(gets) <= 1
       /\ (extracts # <<>> /\ gets # <<>>) => netlog[1].kind = "extract"
       /\ arg.url = "" => (ret.str = <<>> /\ netlog = <<>>)
       /\ arg.url # "" =>
            /\ self.researcher.api_key # "" => extracts # <<>>
            /\ firstOk => (ret.str = Extracted(arg.ex) /\ gets = <<>>)
            /\ (~firstOk /\ secondOk) => ret.str = _strip_html(arg.gt.text)
            /\ (~firstOk /\ ~secondOk) => ret.str = <<>>

----------------------------------------------------------------------------
(* Properties of the research calls of the aggregation *)

\* the iterations of the loops that attempted the research call
Researched == {i \in 1..Len(walk) : walk[i].researched}

\* the number of items included before iteration i
IncludedBefore(i) == Cardinality({j \in 1..(i - 1) : walk[j].included})

\* C18: with research disabled no research request (search, extract or page
\* fetch) is issued during analyze, whatever the titles are, hot-list titles
\* that match the allow-list included.
C18_DisabledNoResearchRequest ==
  (op = "analyze" /\ ~self.researcher.enabled) => ResearchRequests = <<>>

\* C18 witness: with research disabled the hot-list loop reached a title that
\* matches the allow-list
C18_Witness ==
  /\ ~self.researcher.enabled
  /\ \E i \in 1..Len(walk) :
       /\ walk[i].src = "hot"
       /\ \E k \in AllowList : Contains(LowerStr(k), LowerStr(walk[i].title))
  /\ ResearchRequests = <<>>

\* C19: research calls are made only for items that are then included: none
\* for an item with an empty title or beyond the cap, none once includedCount
\* has reached maxNews, and never more of them than items included.
C19_ResearchOnlyForIncluded ==
  /\ \A i \in Researched :
       /\ walk[i].title # <<>>
       /\ walk[i].included
       /\ IncludedBefore(i) < self.max_news
  /\ Cardinality(Researched) <= count

====
